---- MODULE Spec2Model ----
(***************************************************************************)
(* arcbox-desktop: the daemon process supervisor (DaemonManager), the RPC  *)
(* connection bridge (DaemonService) and the application glue between the  *)
(* two (ArcBoxApp::new), as a state machine.                               *)
(*                                                                         *)
(* Foreground handlers (start, stop, connect, disconnect, the application  *)
(* of a background result) are one action each.  The background startup    *)
(* sequence start_daemon_sync is a sequence of steps on its own thread;    *)
(* its poll loop is computed by the recursive operator poll_loop from a    *)
(* script of what the environment does while it polls.                     *)
(* Times are in milliseconds.                                              *)
(***************************************************************************)
EXTENDS Integers, Sequences, FiniteSets, Bags, TLC

VARIABLES
    alive,         \* the ArcBoxApp and the entities it owns have not been dropped
    daemon_path,   \* DaemonManager.daemon_path: "None" or "Some" (a binary was found)
    state,         \* DaemonManager.state
    child_handle,  \* DaemonManager.child_handle: 0 (None) or the startup that spawned it
    emitted,       \* the StateChanged events emitted by the last foreground handler
    startups,      \* the startup sequences scheduled by start(), in order
    endpoint,      \* what the health-check socket currently does (environment)
    connState,     \* DaemonService.state
    channel,       \* DaemonService.channel: 0 (None) or the dial that produced it
    dials,         \* the connect tasks scheduled by connect(), in order
    calls,         \* number of API calls made so far
    lastOp,        \* the last foreground handler that ran, and the state it ran in
    ops,           \* the typed operations of the DaemonService in flight (a bag)
    views,         \* ContainersView and ImagesView: is_loading and the loaded list
    handled,       \* what the last step did, if it was a handler of a typed operation
    viewer,        \* the LogViewer component: released, subscribed, lines
    subs,          \* the subscribe_logs invocations on the DaemonService, in order
    tasks          \* the tasks made by Tokio::spawn, in order

mgrVars == <<daemon_path, state, child_handle, emitted, startups>>
svcVars == <<connState, channel, dials>>
opsVars == <<ops, views, handled>>
logVars == <<viewer, subs>>
vars == <<alive, daemon_path, state, child_handle, emitted, startups, endpoint,
          connState, channel, dials, calls, lastOp, ops, views, handled, viewer, subs,
          tasks>>

-----------------------------------------------------------------------------
(* Bounds of the model *)

\* API calls (start, stop, connect, disconnect) the application makes in one run
MaxCalls == 3
\* typed operations of the application in flight at a time, with those they chain
MaxOps == 3
\* entries a log stream produces
MaxEntries == 2
\* calls of Tokio::spawn in one run
MaxTasks == 2
\* the environment's events during a poll loop happen in iterations 0..MaxEventIter
MaxEventIter == 1

(* Program constants, in milliseconds *)
STARTUP_TIMEOUT == 30000
STARTUP_PING_INTERVAL == 200
PING_READ_TIMEOUT == 2000
\* LogViewer.max_lines
MAX_LINES == 10000

-----------------------------------------------------------------------------
(* Values *)

\* DaemonState
Stopped == [tag |-> "Stopped", msg |-> <<>>]
Starting == [tag |-> "Starting", msg |-> <<>>]
Running == [tag |-> "Running", msg |-> <<>>]
Failed(m) == [tag |-> "Failed", msg |-> m]

\* ConnectionState
Disconnected == [tag |-> "Disconnected", msg |-> <<>>]
Connecting == [tag |-> "Connecting", msg |-> <<>>]
Connected == [tag |-> "Connected", msg |-> <<>>]
Error(m) == [tag |-> "Error", msg |-> m]

\* format!("<prefix>{}", arg): the text and the value formatted into it
Format(prefix, arg) == <<prefix, arg>>

\* Result<_, String>
NoResult == [kind |-> "none", err |-> <<>>]
Ok == [kind |-> "Ok", err |-> <<>>]
Err(m) == [kind |-> "Err", err |-> m]

\* what a handler of a typed operation did: the invocation it handled (with the
\* number of events that invocation has emitted in all), the events emitted
\* and the operations called; Idle after any other step
Handled(name, pre, o, evs, issued) ==
    [op |-> name, pre |-> pre, id |-> o, emitted |-> evs, issued |-> issued]
Issued(kind, dispatched) == [kind |-> kind, dispatched |-> dispatched]
Idle == [op |-> "none"]

ALREADY_RUNNING == <<"ALREADY_RUNNING">>
BinaryNotFound == <<"Daemon binary not found">>
StartupTimeout == <<"Daemon startup timeout">>

\* what the environment can answer
IoErrors == {"Permission denied"}
ExitStatuses == {"exit status: 1", "signal: 9"}
\* the values a future given to Tokio::spawn can complete with
TaskValues == {1, 2, 3}
\* the health-check socket: no listener, a listener that never answers, one that
\* answers the liveness request
EndpointStates == {"absent", "silent", "ok"}
\* and the other ways an exchange with it can go: the peer resets the
\* connection before the request is written, closes it without answering,
\* answers something else, answers the bare body of a liveness reply
ProbeEndpoints == EndpointStates \cup {"reset", "eof", "other", "bare"}

-----------------------------------------------------------------------------
(* DaemonManager::find_daemon_binary: bundle, then alongside the executable,
   then PATH *)
find_daemon_binary(inBundle, alongside, inPath) ==
    IF inBundle THEN "Some"
    ELSE IF alongside THEN "Some"
    ELSE IF inPath THEN "Some"
    ELSE "None"

(* The exchange of DaemonManager::ping_daemon_sync with the socket *)
Exchange(ep) ==
    CASE ep = "absent"  -> [connect |-> FALSE, write |-> FALSE, n |-> 0, response |-> <<>>]
      [] ep = "silent"  -> [connect |-> TRUE, write |-> TRUE, n |-> -1, response |-> <<>>]
      [] ep = "ok"      -> [connect |-> TRUE, write |-> TRUE, n |-> 6,
                            response |-> <<"2", "0", "0", " ", "O", "K">>]
      [] ep = "reset"   -> [connect |-> TRUE, write |-> FALSE, n |-> 0, response |-> <<>>]
      [] ep = "eof"     -> [connect |-> TRUE, write |-> TRUE, n |-> 0, response |-> <<>>]
      [] ep = "other"   -> [connect |-> TRUE, write |-> TRUE, n |-> 3,
                            response |-> <<"4", "0", "4">>]
      [] ep = "bare"    -> [connect |-> TRUE, write |-> TRUE, n |-> 2,
                            response |-> <<"O", "K">>]

\* str::contains
Contains(s, pat) ==
    \E i \in 0..(Len(s) - Len(pat)) : SubSeq(s, i + 1, i + Len(pat)) = pat

ping_daemon_sync_status_line_only(ep) ==
    LET x == Exchange(ep) IN
    IF ~x.connect THEN FALSE
    ELSE IF ~x.write THEN FALSE
    ELSE IF x.n > 0
         THEN Contains(x.response, <<"2", "0", "0", " ", "O", "K">>)
         ELSE FALSE

(* DaemonManager::ping_daemon_sync *)
ping_daemon_sync(ep) ==
    LET x == Exchange(ep) IN
    IF ~x.connect THEN FALSE
    ELSE IF ~x.write THEN FALSE
    ELSE IF x.n > 0
         THEN \/ Contains(x.response, <<"2", "0", "0", " ", "O", "K">>)
              \/ Contains(x.response, <<"O", "K">>)
         ELSE FALSE

\* how long a probe takes: only a read that times out takes time
ProbeDuration(ep) ==
    LET x == Exchange(ep) IN
    IF x.connect /\ x.write /\ x.n < 0 THEN PING_READ_TIMEOUT ELSE 0

-----------------------------------------------------------------------------
(* The poll loop of start_daemon_sync *)

Never == MaxEventIter + 1
EventIters == 0..Never
\* the last iteration whose timeout check still passes with instant probes
LastFastIter == STARTUP_TIMEOUT \div STARTUP_PING_INTERVAL

\* What the environment does while one startup sequence polls: the iteration
\* from which the daemon answers, the one from which the child has exited (and
\* with what status), the one at which the status check fails, and the
\* iteration from which unanswered probes run into the read timeout.
Scripts ==
    [readyAt : EventIters, exitAt : EventIters, status : ExitStatuses,
     waitErrAt : EventIters, slowFrom : {0, LastFastIter + 1, LastFastIter + 2}]

EndpointAt(script, i) ==
    IF script.readyAt <= MaxEventIter /\ i >= script.readyAt THEN "ok"
    ELSE IF i >= script.slowFrom THEN "silent"
    ELSE "absent"

\* Child::try_wait
try_wait(script, i) ==
    IF script.waitErrAt <= MaxEventIter /\ i = script.waitErrAt
    THEN [kind |-> "Err", status |-> ""]
    ELSE IF script.exitAt <= MaxEventIter /\ i >= script.exitAt
    THEN [kind |-> "Some", status |-> script.status]
    ELSE [kind |-> "None", status |-> ""]

ChildAt(script, i) ==
    IF script.exitAt <= MaxEventIter /\ i >= script.exitAt THEN "exited" ELSE "running"

\* the failure reported for a child that has exited
exit_failure_no_status(status) == Err(Format("Daemon exited", ""))
exit_failure(status) == Err(Format("Daemon exited with: ", status))

\* start_time.elapsed() > STARTUP_TIMEOUT
timed_out_ge(now) == now >= STARTUP_TIMEOUT
timed_out(now) == now > STARTUP_TIMEOUT

\* One iteration of the loop, on the loop's state: the iteration number i, the
\* time since start_time, and what the function returns once it has returned
\* (with the child's fate: its state, its exit status, the iteration it was
\* first seen exited in).
poll_iteration(script, st) ==
    IF st.done THEN st
    ELSE
    LET ep == EndpointAt(script, st.i)
        now == st.elapsed + ProbeDuration(ep)
        w == try_wait(script, st.i)
        seen == [st EXCEPT !.child = ChildAt(script, st.i),
                           !.status = IF ChildAt(script, st.i) = "exited"
                                      THEN script.status ELSE "",
                           !.exitIter = IF ChildAt(script, st.i) = "exited"
                                        THEN script.exitAt ELSE -1,
                           !.elapsed = now, !.endpoint = ep]
        return(res) == [seen EXCEPT !.done = TRUE, !.result = res]
    IN  IF ping_daemon_sync(ep) THEN return(Ok)
        ELSE IF w.kind = "Some"
             THEN return(exit_failure(w.status))
        ELSE IF w.kind = "Err"
             THEN return(Err(Format("Failed to check daemon status: ", "ECHILD")))
        ELSE IF timed_out(now)
             THEN [return(Err(StartupTimeout)) EXCEPT !.child = "killed"]
        ELSE [seen EXCEPT !.i = st.i + 1, !.elapsed = now + STARTUP_PING_INTERVAL]

\* n iterations in a row
RECURSIVE Repeat(_, _, _)
Repeat(script, st, n) ==
    IF n = 0 THEN st
    ELSE IF n = 1 THEN poll_iteration(script, st)
    ELSE LET half == Repeat(script, st, n \div 2) IN
         IF half.done THEN half ELSE Repeat(script, half, n - (n \div 2))

\* iterate until the loop returns
RECURSIVE RunLoop(_, _, _)
RunLoop(script, st, n) ==
    LET after == Repeat(script, st, n) IN
    IF after.done THEN after ELSE RunLoop(script, after, 2 * n)

poll_loop(script) ==
    RunLoop(script, [i |-> 0, elapsed |-> 0, done |-> FALSE, result |-> NoResult,
                     child |-> "running", status |-> "", exitIter |-> -1,
                     endpoint |-> "absent"], 1)

\* every way the loop can return
PollOutcomes == {poll_loop(script) : script \in Scripts}

-----------------------------------------------------------------------------
(* Foreground: DaemonService *)

NewDial == [pc |-> "dialing", result |-> NoResult]

connect_body_unguarded ==
    /\ connState' = Connecting
    /\ dials' = Append(dials, NewDial)
    /\ UNCHANGED channel

\* DaemonService::connect (the observers it notifies see a state that is not
\* Connected and do nothing)
connect_body ==
    IF connState.tag \in {"Connecting", "Connected"}
    THEN UNCHANGED svcVars
    ELSE /\ connState' = Connecting
         /\ dials' = Append(dials, NewDial)
         /\ UNCHANGED channel

disconnect_body_keeps_channel ==
    /\ connState' = Disconnected
    /\ UNCHANGED <<channel, dials>>

\* DaemonService::disconnect (the observers it notifies see a state that is not
\* Connected and do nothing)
disconnect_body ==
    /\ channel' = 0
    /\ connState' = Disconnected
    /\ UNCHANGED dials

-----------------------------------------------------------------------------
(* DaemonService: the typed operations *)

\* WeakEntity::update on an entity that has been released returns an error and
\* does not run the closure
update_never_fails == FALSE
update_fails == ~alive

ListOps == {"list_machines", "list_containers", "list_images", "list_networks"}
ContainerOps == {"start_container", "stop_container", "remove_container"}
NetworkOps == {"create_network", "remove_network"}
MutatingOps == ContainerOps \cup {"create_container"} \cup NetworkOps
TypedOps == ListOps \cup MutatingOps

\* DaemonEvent
Event(tag, arg) == [tag |-> tag, arg |-> arg]
OperationFailed(msg) == Event("OperationFailed", msg)
NotConnected == <<"Not connected to daemon">>

\* what the daemon can answer to a call: a tonic::Status, the entities of a
\* listing, the id of a created entity
RpcStatuses == {"unavailable"}
Listings == {<<>>, <<"abc">>}
EntityId == "abc"

\* One typed operation whose background call has been dispatched and whose
\* continuation has not run yet: its parameters and how many events the
\* invocation has emitted so far; for a mutating operation also who made the
\* invocation (the application or the Ok arm of another operation): a listing
\* is the same call whoever made it. The field start holds the boolean
\* argument of the call: start of create_container, all of list_containers.
\* The field refresh is the history of a listing in flight: "issued" once a
\* refresh (the listing chained from a successful mutation) of its kind has
\* been issued after it, "applied" once the response of a listing issued with
\* or after that refresh has been applied.
NewOp(kind, st, by) ==
    [kind |-> kind, start |-> st, by |-> IF kind \in ListOps THEN "any" ELSE by,
     events |-> 0, refresh |-> "none"]

\* the operations B in flight, those of one kind moved on in that history
Promote(B, kind, from, to) ==
    LET moved(o) == IF o.kind = kind /\ o.refresh = from
                    THEN [o EXCEPT !.refresh = to] ELSE o
    IN  BagOfAll(moved, B)

\* the operations in flight once a call of `kind` has been dispatched by `by`
Earlier(cur, kind, by) ==
    IF by = "chained" /\ kind \in ListOps THEN Promote(cur, kind, "none", "issued")
    ELSE cur

\* the guard `let Some(client) = self.*_client() else { ... return }` of each
\* operation: the events it emits before it returns
not_connected_events(kind) ==
    IF kind \in {"create_container", "create_network", "remove_network"}
    THEN <<OperationFailed(NotConnected)>>
    ELSE <<>>

typed_operation_emits_and_dispatches(cur, chan, kind, st, by) ==
    LET evs == IF chan = 0 THEN not_connected_events(kind) ELSE <<>> IN
    [ops |-> Earlier(cur, kind, by)
             (+) SetToBag({[NewOp(kind, st, by) EXCEPT !.events = Len(evs)]}),
     emitted |-> evs, dispatched |-> TRUE]

\* A typed operation called with the operations `cur` in flight and the channel
\* `chan`: the operations in flight after the call, the events the call
\* emitted, whether it dispatched a background call.
typed_operation(cur, chan, kind, st, by) ==
    IF chan = 0
    THEN [ops |-> cur, emitted |-> not_connected_events(kind), dispatched |-> FALSE]
    ELSE [ops |-> Earlier(cur, kind, by) (+) SetToBag({NewOp(kind, st, by)}),
          emitted |-> <<>>, dispatched |-> TRUE]

\* the event of the Ok arm of each operation
success_event(kind, payload) ==
    CASE kind = "list_machines"    -> Event("MachinesLoaded", payload)
      [] kind = "list_containers"  -> Event("ContainersLoaded", payload)
      [] kind = "list_images"      -> Event("ImagesLoaded", payload)
      [] kind = "list_networks"    -> Event("NetworksLoaded", payload)
      [] kind = "create_container" -> Event("ContainerCreated", payload)
      [] kind = "start_container"  -> Event("ContainerStarted", EntityId)
      [] kind = "stop_container"   -> Event("ContainerStopped", EntityId)
      [] kind = "remove_container" -> Event("ContainerRemoved", EntityId)
      [] kind = "create_network"   -> Event("NetworkCreated", payload)
      [] kind = "remove_network"   -> Event("NetworkRemoved", EntityId)

\* the operation each Ok arm calls after it has emitted its event
chained_operation(kind, st) ==
    CASE kind \in ContainerOps     -> "list_containers"
      [] kind = "create_container" -> IF st THEN "start_container" ELSE "list_containers"
      [] kind \in NetworkOps       -> "list_networks"
      [] OTHER                     -> "none"

\* the boolean argument of the chained call: list_containers(true, cx)
chained_argument_not_all(next) == FALSE
chained_argument(next) == next = "list_containers"

FailurePrefix(kind) ==
    CASE kind = "create_container" -> "Failed to create container: "
      [] kind = "start_container"  -> "Failed to start container: "
      [] kind = "stop_container"   -> "Failed to stop container: "
      [] kind = "remove_container" -> "Failed to remove container: "
      [] kind = "create_network"   -> "Failed to create network: "
      [] kind = "remove_network"   -> "Failed to remove network: "
      [] OTHER                     -> ""

\* the events of the Err arm of each operation: the listings only log
failure_events(kind, e) ==
    IF kind \in ListOps THEN <<>>
    ELSE <<OperationFailed(Format(FailurePrefix(kind), e))>>

\* ContainersView::on_containers_loaded, ImagesView::on_images_loaded
on_loaded(response) == [is_loading |-> FALSE, list |-> response]

\* ArcBoxApp::new, the subscription to the service's events
on_daemon_event(ev, v) ==
    CASE ev.tag = "ContainersLoaded" -> [v EXCEPT !.containers = on_loaded(ev.arg)]
      [] ev.tag = "ImagesLoaded"     -> [v EXCEPT !.images = on_loaded(ev.arg)]
      [] OTHER                       -> v

\* ContainersView::new and ImagesView::new, the observers of the service, run
\* (in the order the views were created) each time the service notifies: the
\* operations in flight after them
observe_service(cur, st, chan) ==
    LET afterContainers ==
            IF st = Connected /\ views.containers.is_loading
            THEN typed_operation(cur, chan, "list_containers", TRUE, "observer").ops
            ELSE cur
    IN  IF st = Connected /\ views.images.is_loading
        THEN typed_operation(afterContainers, chan, "list_images", FALSE, "observer").ops
        ELSE afterContainers

-----------------------------------------------------------------------------
(* Foreground: DaemonManager *)

\* ArcBoxApp::new, the subscription to the manager's events
on_manager_event_connects_always(ev) == connect_body

on_manager_event(ev) ==
    IF ev = Running THEN connect_body ELSE UNCHANGED svcVars

set_state_unguarded(new) ==
    /\ state' = new
    /\ emitted' = <<new>>
    /\ on_manager_event(new)

\* DaemonManager::set_state
set_state(new) ==
    IF state # new
    THEN /\ state' = new
         /\ emitted' = <<new>>
         /\ on_manager_event(new)
    ELSE /\ emitted' = <<>>
         /\ UNCHANGED <<state, svcVars>>

\* a startup sequence: where it is, what it has done (the first probe's answer,
\* the socket file removed, the child spawned and its fate) and, between the
\* return of start_daemon_sync and the use of its result, what it returned
NewStartup == [pc |-> "mkdir", pre |-> "none", sock |-> FALSE, child |-> "none",
               status |-> "", result |-> NoResult, elapsed |-> 0, iter |-> -1,
               exitIter |-> -1]

start_body_unguarded ==
    IF daemon_path = "None"
    THEN /\ set_state(Failed(BinaryNotFound))
         /\ UNCHANGED <<daemon_path, child_handle, startups>>
    ELSE /\ set_state(Starting)
         /\ startups' = Append(startups, NewStartup)
         /\ UNCHANGED <<daemon_path, child_handle>>

start_body_no_binary_check ==
    IF state.tag \in {"Starting", "Running"}
    THEN /\ emitted' = <<>>
         /\ UNCHANGED <<daemon_path, state, child_handle, startups, svcVars>>
    ELSE /\ set_state(Starting)
         /\ startups' = Append(startups, NewStartup)
         /\ UNCHANGED <<daemon_path, child_handle>>

\* DaemonManager::start
start_body ==
    IF state.tag \in {"Starting", "Running"}
    THEN /\ emitted' = <<>>
         /\ UNCHANGED <<daemon_path, state, child_handle, startups, svcVars>>
    ELSE IF daemon_path = "None"
    THEN /\ set_state(Failed(BinaryNotFound))
         /\ UNCHANGED <<daemon_path, child_handle, startups>>
    ELSE /\ set_state(Starting)
         /\ startups' = Append(startups, NewStartup)
         /\ UNCHANGED <<daemon_path, child_handle>>

stop_body_takes_handle ==
    /\ set_state(Stopped)
    /\ child_handle' = 0
    /\ UNCHANGED <<daemon_path, startups>>

\* DaemonManager::stop
stop_body ==
    /\ set_state(Stopped)
    /\ UNCHANGED <<daemon_path, child_handle, startups>>

Op(name, pre, id) == [op |-> name, pre |-> pre, id |-> id]

start ==
    /\ alive /\ calls < MaxCalls
    /\ start_body
    /\ calls' = calls + 1
    /\ lastOp' = Op("start", state.tag, 0)
    /\ UNCHANGED <<alive, endpoint, opsVars, logVars, tasks>>

stop ==
    /\ alive /\ calls < MaxCalls
    /\ stop_body
    /\ calls' = calls + 1
    /\ lastOp' = Op("stop", state.tag, 0)
    /\ UNCHANGED <<alive, endpoint, opsVars, logVars, tasks>>

connect ==
    /\ alive /\ calls < MaxCalls
    /\ connect_body
    /\ calls' = calls + 1
    /\ lastOp' = Op("connect", connState.tag, 0)
    /\ emitted' = <<>>
    /\ handled' = Idle
    /\ UNCHANGED <<alive, endpoint, daemon_path, state, child_handle, startups,
                   ops, views, logVars, tasks>>

disconnect ==
    /\ alive /\ calls < MaxCalls
    /\ disconnect_body
    /\ calls' = calls + 1
    /\ lastOp' = Op("disconnect", connState.tag, 0)
    /\ emitted' = <<>>
    /\ handled' = Idle
    /\ UNCHANGED <<alive, endpoint, daemon_path, state, child_handle, startups,
                   ops, views, logVars, tasks>>

\* the window is closed: the application and its entities are dropped, a
\* LogViewer among them (it holds a strong handle to the service, which is
\* released only once the viewer is)
Teardown ==
    /\ alive
    /\ alive' = FALSE
    /\ viewer' = [viewer EXCEPT !.released = TRUE]
    /\ lastOp' = Op("teardown", "", 0)
    /\ emitted' = <<>>
    /\ handled' = Idle
    /\ UNCHANGED <<daemon_path, state, child_handle, startups, svcVars, endpoint, calls,
                   ops, views, subs, tasks>>

-----------------------------------------------------------------------------
(* Background: DaemonManager::start_daemon_sync, one startup sequence t *)

SetStartup(t, rec) == startups' = [startups EXCEPT ![t] = rec]

BgFrame == UNCHANGED <<alive, daemon_path, state, child_handle, emitted, svcVars,
                       calls, lastOp, opsVars, logVars, tasks>>

\* std::fs::create_dir_all(data_dir)
CreateDataDir(t) ==
    /\ startups[t].pc = "mkdir"
    /\ \/ SetStartup(t, [startups[t] EXCEPT !.pc = "probe"])
       \/ \E e \in IoErrors :
            SetStartup(t, [startups[t] EXCEPT
                !.pc = "resolved",
                !.result = Err(Format("Failed to create data dir: ", e))])
    /\ UNCHANGED endpoint
    /\ BgFrame

\* the probe before any spawn
PreProbe(t) ==
    /\ startups[t].pc = "probe"
    /\ IF ping_daemon_sync(endpoint)
       THEN SetStartup(t, [startups[t] EXCEPT
                !.pc = "resolved", !.pre = "alive",
                !.result = Err(ALREADY_RUNNING)])
       ELSE SetStartup(t, [startups[t] EXCEPT
                !.pc = "rmsock", !.pre = "dead"])
    /\ UNCHANGED endpoint
    /\ BgFrame

RemoveStaleSocket_skipped(t) ==
    /\ startups[t].pc = "rmsock"
    /\ SetStartup(t, [startups[t] EXCEPT !.pc = "spawn"])
    /\ UNCHANGED endpoint
    /\ BgFrame

\* std::fs::remove_file(socket_path), its result ignored
RemoveStaleSocket(t) ==
    /\ startups[t].pc = "rmsock"
    /\ SetStartup(t, [startups[t] EXCEPT !.pc = "spawn", !.sock = TRUE])
    /\ endpoint' = "absent"
    /\ BgFrame

\* Command::new(daemon_path)...spawn()
SpawnDaemon(t) ==
    /\ startups[t].pc = "spawn"
    /\ \/ SetStartup(t, [startups[t] EXCEPT !.pc = "poll", !.child = "running"])
       \/ \E e \in IoErrors :
            SetStartup(t, [startups[t] EXCEPT
                !.pc = "resolved",
                !.result = Err(Format("Failed to spawn daemon: ", e))])
    /\ UNCHANGED endpoint
    /\ BgFrame

\* the loop that waits for the daemon to become ready
PollLoop(t) ==
    /\ startups[t].pc = "poll"
    /\ \E r \in PollOutcomes :
        /\ SetStartup(t, [startups[t] EXCEPT
                !.pc = "resolved", !.result = r.result, !.child = r.child,
                !.status = r.status, !.elapsed = r.elapsed, !.iter = r.i,
                !.exitIter = r.exitIter])
        /\ endpoint' = r.endpoint
    /\ BgFrame

apply_startup_result_no_sentinel(t, result) ==
    IF result.kind = "Ok"
    THEN /\ child_handle' = t
         /\ set_state(Running)
    ELSE /\ set_state(Failed(result.err))
         /\ UNCHANGED child_handle

apply_startup_result_drops_handle(t, result) ==
    IF result.kind = "Ok"
    THEN /\ child_handle' = t
         /\ set_state(Running)
    ELSE IF result.err = ALREADY_RUNNING
    THEN /\ set_state(Running)
         /\ child_handle' = 0
    ELSE /\ set_state(Failed(result.err))
         /\ UNCHANGED child_handle

apply_startup_result_keeps_starting(t, result) ==
    IF result.kind = "Ok"
    THEN /\ child_handle' = t
         /\ set_state(Running)
    ELSE IF result.err = ALREADY_RUNNING
    THEN /\ set_state(Running)
         /\ UNCHANGED child_handle
    ELSE /\ emitted' = <<>>
         /\ UNCHANGED <<state, child_handle, svcVars>>

apply_startup_result_failure_clears(t, result) ==
    IF result.kind = "Ok"
    THEN /\ child_handle' = t
         /\ set_state(Running)
    ELSE IF result.err = ALREADY_RUNNING
    THEN /\ set_state(Running)
         /\ UNCHANGED child_handle
    ELSE /\ set_state(Failed(result.err))
         /\ child_handle' = 0

\* DaemonManager::start, the match on the result, inside this.update
apply_startup_result(t, result) ==
    IF result.kind = "Ok"
    THEN /\ child_handle' = t
         /\ set_state(Running)
    ELSE IF result.err = ALREADY_RUNNING
    THEN /\ set_state(Running)
         /\ UNCHANGED child_handle
    ELSE /\ set_state(Failed(result.err))
         /\ UNCHANGED child_handle

\* DaemonManager::start, the continuation that applies the result; the update
\* of a dropped entity does nothing
ApplyStartupResult(t) ==
    /\ startups[t].pc = "resolved"
    /\ SetStartup(t, [startups[t] EXCEPT !.pc = "done", !.result = NoResult,
                                          !.elapsed = 0, !.iter = -1, !.exitIter = -1])
    /\ IF update_fails
       THEN /\ emitted' = <<>>
            /\ UNCHANGED <<state, child_handle, svcVars>>
       ELSE apply_startup_result(t, startups[t].result)
    /\ lastOp' = Op("startup_resolved", state.tag, t)
    /\ UNCHANGED <<alive, daemon_path, endpoint, calls, opsVars, logVars, tasks>>

-----------------------------------------------------------------------------
(* Background: DaemonService::create_channel_with_runtime, one dial d *)

SocketPath == "arcbox.sock"

create_channel_with_runtime(probeOk, dialOk) ==
    IF ~probeOk THEN Err(Format("Cannot connect to socket: ", SocketPath))
    ELSE IF ~dialOk THEN Err(Format("Failed to connect: ", "transport error"))
    ELSE Ok

Dial(d) ==
    /\ dials[d].pc = "dialing"
    /\ \E probeOk \in BOOLEAN, dialOk \in BOOLEAN :
        dials' = [dials EXCEPT ![d] =
            [pc |-> "resolved", result |-> create_channel_with_runtime(probeOk, dialOk)]]
    /\ handled' = Idle
    /\ UNCHANGED <<alive, mgrVars, endpoint, connState, channel, calls, lastOp,
                   ops, views, logVars, tasks>>

\* DaemonService::connect, the continuation that applies the result and
\* notifies the observers of the service
ApplyConnectResult(d) ==
    /\ dials[d].pc = "resolved"
    /\ dials' = [dials EXCEPT ![d] = [pc |-> "done", result |-> NoResult]]
    /\ IF update_fails
       THEN UNCHANGED <<connState, channel, ops>>
       ELSE /\ IF dials[d].result.kind = "Ok"
               THEN /\ channel' = d
                    /\ connState' = Connected
               ELSE /\ connState' = Error(dials[d].result.err)
                    /\ UNCHANGED channel
            /\ ops' = observe_service(ops, connState', channel')
    /\ lastOp' = Op("connect_resolved", connState.tag, d)
    /\ emitted' = <<>>
    /\ handled' = Idle
    /\ UNCHANGED <<alive, daemon_path, state, child_handle, startups, endpoint, calls,
                   views, logVars, tasks>>

-----------------------------------------------------------------------------
(* DaemonService: the typed operations, as called and as resolved *)

\* how many further operations the Ok arms of an operation can lead to
Chain(kind, st) ==
    CASE chained_operation(kind, st) = "none"            -> 0
      [] chained_operation(kind, st) = "start_container" -> 2
      [] OTHER                                           -> 1

\* an operation in flight and those still to be chained from it
Weight(o) == 1 + Chain(o.kind, o.start)

RECURSIVE SumWeights(_, _)
SumWeights(B, S) ==
    IF S = {} THEN 0
    ELSE LET o == CHOOSE x \in S : TRUE
         IN  CopiesIn(o, B) * Weight(o) + SumWeights(B, S \ {o})

Committed == SumWeights(ops, BagToSet(ops))

Take(B, o) == B (-) SetToBag({o})

OpsFrame == UNCHANGED <<alive, mgrVars, endpoint, svcVars, calls, logVars, tasks>>

\* an invocation as the history keeps it: with the result of its call, if it
\* made one, and the events it has emitted in all
Invocation(o, result, events) ==
    [kind |-> o.kind, start |-> o.start, by |-> o.by, refresh |-> o.refresh,
     result |-> result,
     events |-> events]

\* the application calls a typed operation
Invoke(kind, st) ==
    /\ alive
    /\ Committed + 1 + Chain(kind, st) <= MaxOps
    /\ LET r == typed_operation(ops, channel, kind, st, "api") IN
        /\ ops' = r.ops
        /\ handled' = Handled(kind, IF channel = 0 THEN "None" ELSE "Some",
                              Invocation(NewOp(kind, st, "api"), "none", Len(r.emitted)),
                              r.emitted, <<Issued(kind, r.dispatched)>>)
    /\ lastOp' = Op("typed_operation", "", 0)
    /\ UNCHANGED views
    /\ OpsFrame

list_machines == Invoke("list_machines", FALSE)
\* the views call it with all = true (containers.rs:65, 116)
list_containers == Invoke("list_containers", TRUE)
list_images == Invoke("list_images", FALSE)
list_networks == Invoke("list_networks", FALSE)
start_container == Invoke("start_container", FALSE)
stop_container == Invoke("stop_container", FALSE)
remove_container == Invoke("remove_container", FALSE)
create_container == \E st \in BOOLEAN : Invoke("create_container", st)
create_network == Invoke("create_network", FALSE)
remove_network == Invoke("remove_network", FALSE)

\* what a call can return: Ok with the entities of a listing or the id of a
\* created entity, or Err with a status
RpcResults(kind) ==
    {[kind |-> "Ok", err |-> <<>>, payload |-> r] :
        r \in IF kind \in ListOps THEN Listings
              ELSE IF kind \in {"create_container", "create_network"} THEN {EntityId}
              ELSE {<<>>}}
    \cup {[kind |-> "Err", err |-> e, payload |-> <<>>] : e \in RpcStatuses}

\* What an arm of the continuation does with the operations `rest` in flight:
\* the operations in flight after it, the events emitted (first those of the
\* invocation itself, `own` of them), the views after the application's
\* subscription has handled them, the operations called.
\* the Ok arm of operation o, inside this.update: the event, then the chained
\* operation
apply_op_success(o, rest, payload) ==
    LET ev == success_event(o.kind, payload)
        next == chained_operation(o.kind, o.start)
        r == typed_operation(rest, channel, next, chained_argument(next), "chained")
    IN  IF next = "none"
        THEN [ops |-> IF o.refresh = "none"
                      THEN Promote(rest, o.kind, "issued", "applied") ELSE rest,
              emitted |-> <<ev>>, own |-> 1,
              views |-> on_daemon_event(ev, views), issued |-> <<>>]
        ELSE [ops |-> r.ops, emitted |-> <<ev>> \o r.emitted, own |-> 1,
              views |-> on_daemon_event(ev, views),
              issued |-> <<Issued(next, r.dispatched)>>]

apply_op_failure_clears_list(o, rest, e) ==
    LET evs == failure_events(o.kind, e) IN
    [ops |-> rest, emitted |-> evs, own |-> Len(evs),
     views |-> [views EXCEPT !.containers.list = <<>>], issued |-> <<>>]

apply_op_failure_twice(o, rest, e) ==
    LET evs == failure_events(o.kind, e) IN
    [ops |-> rest, emitted |-> evs \o evs, own |-> 2 * Len(evs),
     views |-> views, issued |-> <<>>]

\* the Err arm of operation o
apply_op_failure(o, rest, e) ==
    LET evs == failure_events(o.kind, e) IN
    [ops |-> rest, emitted |-> evs, own |-> Len(evs), views |-> views, issued |-> <<>>]

\* The background call of operation o returns `result` and the continuation
\* applies it (nothing reads the result between the two).
ApplyOpResult(o) ==
    \E result \in RpcResults(o.kind) :
        /\ LET rest == Take(ops, o)
               r == IF update_fails
                    THEN [ops |-> rest, emitted |-> <<>>, own |-> 0, views |-> views,
                          issued |-> <<>>]
                    ELSE IF result.kind = "Ok"
                    THEN apply_op_success(o, rest, result.payload)
                    ELSE apply_op_failure(o, rest, result.err)
           IN  /\ ops' = r.ops
               /\ views' = r.views
               /\ handled' = Handled("op_resolved",
                                     IF update_fails THEN "released" ELSE "alive",
                                     Invocation(o, result.kind, o.events + r.own),
                                     r.emitted, r.issued)
        /\ lastOp' = Op("typed_operation", "", 0)
        /\ OpsFrame

-----------------------------------------------------------------------------
(* The log subscription: LogViewer and DaemonService::subscribe_logs *)

\* LogViewer::new
NewLogViewer == [released |-> FALSE, subscribed |-> FALSE, lines |-> <<>>]

\* One invocation of subscribe_logs: where its foreground task is (waiting for
\* the call, then in the forwarding loop), the stream the call returned, the
\* producer that drains it, the two ends of the queue and its content, the
\* number of entries the stream has produced and of LogsReceived events emitted.
NewSub(dispatched) ==
    [fwd |-> IF dispatched THEN "rpc" ELSE "done", dispatched |-> dispatched,
     stream |-> "none", producer |-> "none", tx |-> FALSE, rx |-> FALSE,
     queue |-> <<>>, produced |-> 0, events |-> 0]

\* DaemonService::subscribe_logs, up to the spawn of its task
subscribe_logs(cur, chan) == Append(cur, NewSub(chan # 0))

subscribe_body_unguarded ==
    /\ viewer' = [viewer EXCEPT !.subscribed = TRUE]
    /\ subs' = subscribe_logs(subs, channel)

\* LogViewer::subscribe
subscribe_body ==
    IF viewer.subscribed
    THEN UNCHANGED <<viewer, subs>>
    ELSE /\ viewer' = [viewer EXCEPT !.subscribed = TRUE]
         /\ subs' = subscribe_logs(subs, channel)

\* LogViewer::render, the part that changes state
render_body ==
    IF ~viewer.subscribed THEN subscribe_body ELSE UNCHANGED <<viewer, subs>>

LogFrame == UNCHANGED <<alive, mgrVars, endpoint, svcVars, opsVars, tasks>>

subscribe ==
    /\ alive /\ ~viewer.released /\ calls < MaxCalls
    /\ subscribe_body
    /\ calls' = calls + 1
    /\ lastOp' = Op("subscribe", IF viewer.subscribed THEN "subscribed" ELSE "new", 0)
    /\ LogFrame

render ==
    /\ alive /\ ~viewer.released /\ calls < MaxCalls
    /\ render_body
    /\ calls' = calls + 1
    /\ lastOp' = Op("render", IF viewer.subscribed THEN "subscribed" ELSE "new", 0)
    /\ LogFrame

\* the component that holds the LogViewer releases it
DropViewer ==
    /\ ~viewer.released
    /\ viewer' = [viewer EXCEPT !.released = TRUE]
    /\ lastOp' = Op("drop_viewer", "", 0)
    /\ UNCHANGED <<subs, calls>>
    /\ LogFrame

SetSub(s, rec) == subs' = [subs EXCEPT ![s] = rec]

LogBgFrame == UNCHANGED <<viewer, calls, lastOp>> /\ LogFrame

\* client.container_logs(request) returns, on the background pool
LogsRpc(s) ==
    /\ subs[s].fwd = "rpc"
    /\ \/ SetSub(s, [subs[s] EXCEPT !.fwd = "connected", !.stream = "open"])
       \/ SetSub(s, [subs[s] EXCEPT !.fwd = "rpc_failed"])
    /\ LogBgFrame

\* the task of subscribe_logs takes the result of the call: on Ok it makes the
\* queue, spawns the producer and enters the forwarding loop
StartForwarding(s) ==
    /\ subs[s].fwd \in {"connected", "rpc_failed"}
    /\ IF subs[s].fwd = "connected"
       THEN SetSub(s, [subs[s] EXCEPT !.fwd = "recv", !.producer = "draining",
                                      !.tx = TRUE, !.rx = TRUE])
       ELSE SetSub(s, [subs[s] EXCEPT !.fwd = "done"])
    /\ LogBgFrame

\* the stream yields an entry and the producer sends it: tx.send fails only
\* when the receiver has been dropped
StreamYields(s) ==
    /\ subs[s].producer = "draining" /\ subs[s].stream = "open"
    /\ subs[s].produced < MaxEntries
    /\ IF subs[s].rx
       THEN SetSub(s, [subs[s] EXCEPT !.produced = @ + 1,
                                      !.queue = Append(@, subs[s].produced + 1)])
       ELSE SetSub(s, [subs[s] EXCEPT !.produced = @ + 1,
                                      !.producer = "finished", !.tx = FALSE])
    /\ LogBgFrame

\* the daemon ends the stream, or the stream breaks
StreamEnds(s) ==
    /\ subs[s].stream = "open"
    /\ \E how \in {"ended", "error"} : SetSub(s, [subs[s] EXCEPT !.stream = how])
    /\ LogBgFrame

\* the producer sees the end of the stream or its error and leaves its loop:
\* the sending end of the queue is dropped with it
ProducerExits(s) ==
    /\ subs[s].producer = "draining" /\ subs[s].stream \in {"ended", "error"}
    /\ SetSub(s, [subs[s] EXCEPT !.producer = "finished", !.tx = FALSE])
    /\ LogBgFrame

\* std::sync::mpsc::Receiver::try_recv
try_recv_never_disconnected(queue, tx) ==
    IF queue # <<>> THEN "Ok" ELSE "Empty"
try_recv_drops_backlog(queue, tx) ==
    IF ~tx THEN "Disconnected"
    ELSE IF queue # <<>> THEN "Ok"
    ELSE "Empty"
try_recv(queue, tx) ==
    IF queue # <<>> THEN "Ok"
    ELSE IF tx THEN "Empty"
    ELSE "Disconnected"

\* LogEntry: its timestamp and its data, as text
LogEntry(timestamp, data) == [timestamp |-> timestamp, data |-> data]
\* LogLine
LogLine(content, timestamp) == [content |-> content, timestamp |-> timestamp]

\* the containers whose logs the service streams, the first being the viewer's
ContainerIds == {EntityId, "def"}
\* what the data of an entry can be
EntryData ==
    {<<>>, <<"a">>, <<"a", "\n", "b">>, <<"\n">>, <<"a", "\n", "\n", "b", "\n">>,
     <<"\r", "\n", "b", "\r", "\n">>}

\* str::lines: the text split at each "\n", a "\r" before it dropped; the text
\* after the last "\n" is a line unless it is empty
RECURSIVE Lines(_)
Lines(d) ==
    IF d = <<>> THEN <<>>
    ELSE LET nl == {i \in 1..Len(d) : d[i] = "\n"} IN
         IF nl = {} THEN <<d>>
         ELSE LET k == CHOOSE i \in nl : \A j \in nl : i <= j
                  raw == SubSeq(d, 1, k - 1)
                  line == IF raw # <<>> /\ raw[Len(raw)] = "\r"
                          THEN SubSeq(raw, 1, Len(raw) - 1) ELSE raw
              IN  <<line>> \o Lines(SubSeq(d, k + 1, Len(d)))

on_logs_received_keeps_oldest(lines, own, container_id, entry) ==
    IF container_id # own THEN lines
    ELSE LET nonempty(l) == l # <<>>
             texts == SelectSeq(Lines(entry.data), nonempty)
             pushed == lines \o [i \in 1..Len(texts) |->
                                    LogLine(texts[i], entry.timestamp)]
         IN  IF Len(pushed) > MAX_LINES
             THEN SubSeq(pushed, 1, MAX_LINES)
             ELSE pushed

\* LogViewer::on_daemon_event for LogsReceived, in the viewer of container
\* `own`: the viewer's buffer after it
on_logs_received(lines, own, container_id, entry) ==
    IF container_id # own THEN lines
    ELSE LET nonempty(l) == l # <<>>
             texts == SelectSeq(Lines(entry.data), nonempty)
             pushed == lines \o [i \in 1..Len(texts) |->
                                    LogLine(texts[i], entry.timestamp)]
         IN  IF Len(pushed) > MAX_LINES
             THEN SubSeq(pushed, Len(pushed) - MAX_LINES + 1, Len(pushed))
             ELSE pushed

\* one turn of the forwarding loop
TryRecv(s) ==
    /\ subs[s].fwd = "recv"
    /\ LET got == try_recv(subs[s].queue, subs[s].tx) IN
       CASE got = "Ok" ->
              /\ SetSub(s, [subs[s] EXCEPT
                     !.queue = Tail(@),
                     !.events = IF update_fails THEN @ ELSE @ + 1])
              /\ viewer' = IF update_fails \/ viewer.released THEN viewer
                           ELSE [viewer EXCEPT
                                   !.lines = on_logs_received(@, EntityId, EntityId,
                                                LogEntry(Head(subs[s].queue), <<"a">>))]
         [] got = "Empty" ->
              /\ SetSub(s, [subs[s] EXCEPT !.fwd = "sleeping"])
              /\ UNCHANGED viewer
         [] got = "Disconnected" ->
              /\ SetSub(s, [subs[s] EXCEPT !.fwd = "done", !.rx = FALSE])
              /\ UNCHANGED viewer
    /\ UNCHANGED <<calls, lastOp>>
    /\ LogFrame

\* the 10 ms timer of the forwarding loop fires
TimerFires(s) ==
    /\ subs[s].fwd = "sleeping"
    /\ SetSub(s, [subs[s] EXCEPT !.fwd = "recv"])
    /\ LogBgFrame

\* the service emits LogsReceived for an entry of one of its subscriptions,
\* this viewer's or that of a viewer of another container, and the LogViewer
\* handles it
LogsReceived ==
    /\ alive /\ ~viewer.released /\ calls < MaxCalls
    /\ \E container_id \in ContainerIds, data \in EntryData :
        LET entry == LogEntry(calls + 1, data) IN
        /\ viewer' = [viewer EXCEPT
                !.lines = on_logs_received(@, EntityId, container_id, entry)]
        /\ handled' = [op |-> "logs_received", container_id |-> container_id,
                       entry |-> entry]
    /\ calls' = calls + 1
    /\ UNCHANGED <<alive, mgrVars, endpoint, svcVars, lastOp, ops, views, subs, tasks>>

\* LogViewer::clear
clear ==
    /\ alive /\ ~viewer.released
    /\ viewer' = [viewer EXCEPT !.lines = <<>>]
    /\ handled' = [op |-> "clear"]
    /\ UNCHANGED <<alive, mgrVars, endpoint, svcVars, calls, lastOp, ops, views, subs,
                   tasks>>

-----------------------------------------------------------------------------
(* tokio_bridge: Tokio::spawn *)

JoinError(why) == Err(Format("JoinError: ", why))

\* IconState, as ImageIconService caches it per image
IconState(tag, arg) == [tag |-> tag, arg |-> arg]
Loading == IconState("Loading", <<>>)

\* One call of Tokio::spawn: the future on the tokio runtime, the value it
\* completed with, the abort() calls made on it (none, one that reached the
\* running future, one made after it had finished), the GPUI task returned to
\* the caller, what it resolved with and how many times.
NewTask == [fut |-> "running", value |-> 0, abort |-> "none", task |-> "pending",
            result |-> NoResult, got |-> 0, resolutions |-> 0,
            awaited |-> FALSE, icon |-> Loading]

\* AbortHandle::abort: a no-op on a future that has finished
abort(t) ==
    IF t.fut = "running"
    THEN [t EXCEPT !.fut = "aborting", !.abort = "effective"]
    ELSE [t EXCEPT !.abort = IF @ = "none" THEN "late" ELSE @]

\* impl Drop for AbortOnDrop
AbortOnDrop_drop_forgets(t) == t
AbortOnDrop_drop(t) == abort(t)

TokioFrame == UNCHANGED <<alive, mgrVars, endpoint, svcVars, calls, lastOp, opsVars,
                          logVars>>

\* Tokio::spawn
TokioSpawn ==
    /\ Len(tasks) < MaxTasks
    /\ tasks' = Append(tasks, NewTask)
    /\ TokioFrame

\* the future runs to its end on the runtime (an abort that has not reached a
\* checkpoint yet does not prevent it)
FutureCompletes(i) ==
    /\ tasks[i].fut \in {"running", "aborting"}
    /\ \E v \in TaskValues :
        tasks' = [tasks EXCEPT ![i].fut = "completed", ![i].value = v]
    /\ TokioFrame

\* the future panics
FuturePanics(i) ==
    /\ tasks[i].fut \in {"running", "aborting"}
    /\ tasks' = [tasks EXCEPT ![i].fut = "panicked"]
    /\ TokioFrame

\* the runtime cancels an aborted future at its next checkpoint
FutureCancelled(i) ==
    /\ tasks[i].fut = "aborting"
    /\ tasks' = [tasks EXCEPT ![i].fut = "cancelled"]
    /\ TokioFrame

\* join_handle.await when a panic of the future is not caught
join_resumes_panic(t) ==
    CASE t.fut = "completed" -> Ok
      [] t.fut = "panicked"  -> NoResult
      [] t.fut = "cancelled" -> JoinError("cancelled")

\* what join_handle.await returns
join(t) ==
    CASE t.fut = "completed" -> Ok
      [] t.fut = "panicked"  -> JoinError("panic")
      [] t.fut = "cancelled" -> JoinError("cancelled")

\* the background block of Tokio::spawn: join_handle.await is ready, the guard
\* is dropped, the GPUI task resolves
TaskResolves(i) ==
    /\ tasks[i].task = "pending"
    /\ tasks[i].fut \in {"completed", "panicked", "cancelled"}
    /\ tasks' = [tasks EXCEPT ![i] =
            [AbortOnDrop_drop(tasks[i]) EXCEPT
                !.task = "resolved", !.result = join(tasks[i]),
                !.got = IF tasks[i].fut = "completed" THEN tasks[i].value ELSE 0,
                !.resolutions = @ + 1]]
    /\ TokioFrame

\* fetch_icon: the state cached for what the task resolved with; the future's
\* values 1, 2 and 3 are Ok(Some(path)), Ok(None) and Err(e)
icon_state(result, got) ==
    IF result.kind = "Ok"
    THEN CASE got = 1 -> IconState("Found", <<"path">>)
           [] got = 2 -> IconState("NotFound", <<>>)
           [] OTHER   -> IconState("Error", <<"dimicon::Error">>)
    ELSE IconState("Error", result.err)

\* the foreground task of fetch_icon gets the result of task.await and records
\* it in the cache, if the service is still there
ApplyIconResult(i) ==
    /\ tasks[i].task = "resolved" /\ ~tasks[i].awaited
    /\ tasks' = [tasks EXCEPT
            ![i].awaited = TRUE,
            ![i].icon = IF update_fails THEN @
                        ELSE icon_state(tasks[i].result, tasks[i].got)]
    /\ TokioFrame

\* the caller drops the GPUI task before it has resolved: the block and the
\* guard it holds are dropped
DropTask(i) ==
    /\ tasks[i].task = "pending"
    /\ tasks' = [tasks EXCEPT ![i] = [AbortOnDrop_drop(tasks[i]) EXCEPT !.task = "dropped"]]
    /\ TokioFrame

-----------------------------------------------------------------------------
(* Environment: the health-check socket changes behaviour *)
EndpointChanges ==
    /\ \E ep \in EndpointStates : ep # endpoint /\ endpoint' = ep
    /\ UNCHANGED <<alive, mgrVars, svcVars, calls, lastOp, opsVars, logVars, tasks>>

-----------------------------------------------------------------------------
Init ==
    /\ alive = TRUE
    /\ \E b \in BOOLEAN, a \in BOOLEAN, p \in BOOLEAN :
        daemon_path = find_daemon_binary(b, a, p)
    /\ state = Stopped
    /\ child_handle = 0
    /\ emitted = <<>>
    /\ startups = <<>>
    /\ endpoint \in EndpointStates
    /\ connState = Disconnected
    /\ channel = 0
    /\ dials = <<>>
    /\ calls = 0
    /\ lastOp = Op("new", "", 0)
    /\ ops = EmptyBag
    /\ handled = Idle
    /\ views = [containers |-> [is_loading |-> TRUE, list |-> <<>>],
                images |-> [is_loading |-> TRUE, list |-> <<>>]]
    /\ viewer = NewLogViewer
    /\ subs = <<>>
    /\ tasks = <<>>

Next ==
    \/ start
    \/ stop
    \/ connect
    \/ disconnect
    \/ Teardown
    \/ \E t \in DOMAIN startups : CreateDataDir(t)
    \/ \E t \in DOMAIN startups : PreProbe(t)
    \/ \E t \in DOMAIN startups : RemoveStaleSocket(t)
    \/ \E t \in DOMAIN startups : SpawnDaemon(t)
    \/ \E t \in DOMAIN startups : PollLoop(t)
    \/ \E t \in DOMAIN startups : ApplyStartupResult(t)
    \/ \E d \in DOMAIN dials : Dial(d)
    \/ \E d \in DOMAIN dials : ApplyConnectResult(d)
    \/ EndpointChanges

Spec == Init /\ [][Next]_vars

\* the background pool runs every startup sequence and the foreground executor
\* runs its continuation: the next step of a sequence (there is one at a time)
\* is eventually taken, every probe, spawn and file operation returning
StartupFairness ==
    \A t \in 1..MaxCalls :
        WF_vars(/\ t \in DOMAIN startups
                /\ \/ CreateDataDir(t) \/ PreProbe(t) \/ RemoveStaleSocket(t)
                   \/ SpawnDaemon(t) \/ PollLoop(t) \/ ApplyStartupResult(t))

\* The application as it is wired: connect() has one call site, the
\* subscription to the supervisor's events, so it is called by no one else.
NextApp ==
    \/ start
    \/ stop
    \/ disconnect
    \/ Teardown
    \/ \E t \in DOMAIN startups : CreateDataDir(t)
    \/ \E t \in DOMAIN startups : PreProbe(t)
    \/ \E t \in DOMAIN startups : RemoveStaleSocket(t)
    \/ \E t \in DOMAIN startups : SpawnDaemon(t)
    \/ \E t \in DOMAIN startups : PollLoop(t)
    \/ \E t \in DOMAIN startups : ApplyStartupResult(t)
    \/ \E d \in DOMAIN dials : Dial(d)
    \/ \E d \in DOMAIN dials : ApplyConnectResult(d)
    \/ EndpointChanges

SpecApp == Init /\ [][NextApp]_vars

\* the supervisor alone, for as long as it exists: its calls and its startup
\* sequences; the endpoint is as Init finds it and as the sequences and the
\* daemons they spawn leave it
NextSupervisor ==
    \/ start
    \/ stop
    \/ \E t \in DOMAIN startups : CreateDataDir(t)
    \/ \E t \in DOMAIN startups : PreProbe(t)
    \/ \E t \in DOMAIN startups : RemoveStaleSocket(t)
    \/ \E t \in DOMAIN startups : SpawnDaemon(t)
    \/ \E t \in DOMAIN startups : PollLoop(t)
    \/ \E t \in DOMAIN startups : ApplyStartupResult(t)

SpecSupervisorFair == Init /\ [][NextSupervisor]_vars /\ StartupFairness

\* the supervisor in front of a health-check socket that behaves in any way
InitProbe ==
    /\ alive = TRUE
    /\ \E b \in BOOLEAN, a \in BOOLEAN, p \in BOOLEAN :
        daemon_path = find_daemon_binary(b, a, p)
    /\ state = Stopped
    /\ child_handle = 0
    /\ emitted = <<>>
    /\ startups = <<>>
    /\ endpoint \in ProbeEndpoints
    /\ connState = Disconnected
    /\ channel = 0
    /\ dials = <<>>
    /\ calls = 0
    /\ lastOp = Op("new", "", 0)
    /\ ops = EmptyBag
    /\ handled = Idle
    /\ views = [containers |-> [is_loading |-> TRUE, list |-> <<>>],
                images |-> [is_loading |-> TRUE, list |-> <<>>]]
    /\ viewer = NewLogViewer
    /\ subs = <<>>
    /\ tasks = <<>>

SpecProbe == InitProbe /\ [][NextSupervisor]_vars

-----------------------------------------------------------------------------
(* The service with its typed operations and the views *)

\* a new application with a daemon binary and an answering daemon
InitFresh == Init /\ daemon_path = "Some" /\ endpoint = "ok"

\* The service as it is after construction, or as it is once connect() has
\* been called and its dial has succeeded: the views' observers have issued
\* their listings.
InitOps ==
    /\ alive = TRUE
    /\ daemon_path = "Some"
    /\ state = Stopped
    /\ child_handle = 0
    /\ emitted = <<>>
    /\ startups = <<>>
    /\ endpoint = "ok"
    /\ views = [containers |-> [is_loading |-> TRUE, list |-> <<>>],
                images |-> [is_loading |-> TRUE, list |-> <<>>]]
    /\ handled = Idle
    /\ viewer = NewLogViewer
    /\ subs = <<>>
    /\ tasks = <<>>
    /\ \/ /\ connState = Disconnected
          /\ channel = 0
          /\ dials = <<>>
          /\ calls = 0
          /\ lastOp = Op("new", "", 0)
          /\ ops = EmptyBag
       \/ /\ connState = Connected
          /\ channel = 1
          /\ dials = <<[pc |-> "done", result |-> NoResult]>>
          /\ calls = 1
          /\ lastOp = Op("connect_resolved", "Connecting", 1)
          /\ ops = observe_service(EmptyBag, Connected, 1)

NextOps ==
    \/ disconnect
    \/ Teardown
    \/ list_machines
    \/ list_containers
    \/ list_images
    \/ list_networks
    \/ start_container
    \/ stop_container
    \/ remove_container
    \/ create_container
    \/ create_network
    \/ remove_network
    \/ \E o \in BagToSet(ops) : ApplyOpResult(o)

SpecOps == InitOps /\ [][NextOps]_vars

-----------------------------------------------------------------------------
(* The service with a LogViewer and its log subscription *)

NextLogs ==
    \/ connect
    \/ Teardown
    \/ \E d \in DOMAIN dials : Dial(d)
    \/ \E d \in DOMAIN dials : ApplyConnectResult(d)
    \/ subscribe
    \/ render
    \/ DropViewer
    \/ \E s \in DOMAIN subs : LogsRpc(s)
    \/ \E s \in DOMAIN subs : StartForwarding(s)
    \/ \E s \in DOMAIN subs : StreamYields(s)
    \/ \E s \in DOMAIN subs : StreamEnds(s)
    \/ \E s \in DOMAIN subs : ProducerExits(s)
    \/ \E s \in DOMAIN subs : TryRecv(s)
    \/ \E s \in DOMAIN subs : TimerFires(s)

SpecLogs == InitFresh /\ [][NextLogs]_vars

\* The executors run every task that is ready: the producer on the background
\* pool, the forwarding loop on the foreground with its timer.  What the
\* daemon's stream does is not constrained.
LogsFairness ==
    \A s \in 1..MaxCalls :
        /\ WF_vars(s \in DOMAIN subs /\ StartForwarding(s))
        /\ WF_vars(s \in DOMAIN subs /\ ProducerExits(s))
        /\ WF_vars(s \in DOMAIN subs /\ TryRecv(s))
        /\ WF_vars(s \in DOMAIN subs /\ TimerFires(s))

SpecLogsFair == SpecLogs /\ LogsFairness

\* The LogViewer and the LogsReceived events it is sent.  The viewer is as
\* constructed, or as it is once MAX_LINES - 1 or MAX_LINES lines have been
\* received for its container.
InitViewer ==
    /\ alive = TRUE
    /\ daemon_path = "Some"
    /\ state = Stopped
    /\ child_handle = 0
    /\ emitted = <<>>
    /\ startups = <<>>
    /\ endpoint = "ok"
    /\ connState = Disconnected
    /\ channel = 0
    /\ dials = <<>>
    /\ calls = 0
    /\ lastOp = Op("new", "", 0)
    /\ ops = EmptyBag
    /\ handled = Idle
    /\ views = [containers |-> [is_loading |-> TRUE, list |-> <<>>],
                images |-> [is_loading |-> TRUE, list |-> <<>>]]
    /\ \E n \in {0, MAX_LINES - 1, MAX_LINES} :
        viewer = [NewLogViewer EXCEPT !.lines = [i \in 1..n |-> LogLine(<<"a">>, 0)]]
    /\ subs = <<>>
    /\ tasks = <<>>

NextViewer ==
    \/ LogsReceived
    \/ clear
    \/ DropViewer

SpecViewer == InitViewer /\ [][NextViewer]_vars

-----------------------------------------------------------------------------
(* The execution bridge *)

NextTokio ==
    \/ TokioSpawn
    \/ \E i \in DOMAIN tasks : FutureCompletes(i)
    \/ \E i \in DOMAIN tasks : FuturePanics(i)
    \/ \E i \in DOMAIN tasks : FutureCancelled(i)
    \/ \E i \in DOMAIN tasks : TaskResolves(i)
    \/ \E i \in DOMAIN tasks : ApplyIconResult(i)
    \/ \E i \in DOMAIN tasks : DropTask(i)
    \/ Teardown

SpecTokio == InitFresh /\ [][NextTokio]_vars

\* the background executor runs the block of Tokio::spawn and the foreground
\* executor runs the task of fetch_icon: a step of theirs that can be taken is
\* eventually taken
TokioFairness ==
    \A i \in 1..MaxTasks :
        /\ WF_vars(i \in DOMAIN tasks /\ TaskResolves(i))
        /\ WF_vars(i \in DOMAIN tasks /\ ApplyIconResult(i))

SpecTokioFair == SpecTokio /\ TokioFairness

-----------------------------------------------------------------------------
(* Claims *)

InFlight(jobs) == {k \in DOMAIN jobs : jobs[k].pc # "done"}
StatusCheckFailed(result) ==
    result.kind = "Err" /\ result.err[1] = "Failed to check daemon status: "

\* C1: start() called while the state is Starting or Running changes nothing:
\* no startup sequence is scheduled (so no second daemon is spawned), the
\* state and the child handle stay as they are, no StateChanged event is
\* emitted and no connect() is triggered.
C1_StartIsIdempotent ==
    [][(start /\ state.tag \in {"Starting", "Running"})
          => /\ UNCHANGED <<state, child_handle, startups, daemon_path, svcVars>>
             /\ emitted' = <<>>]_vars

C1_Witness ==
    /\ lastOp.op = "start" /\ lastOp.pre = "Running"
    /\ InFlight(startups) = {}

\* C2: a startup sequence that resolves while the state is Stopped (stop() was
\* called after the start() that scheduled it) leaves the state Stopped.
C2_StaleStartupKeepsStopped ==
    (lastOp.op = "startup_resolved" /\ lastOp.pre = "Stopped") => state = Stopped

\* C3 as claimed: every start() made in Stopped or Failed while the health-check
\* socket answers schedules a startup sequence that ends in Running without a
\* child: such a call never leaves the state Failed, and a sequence whose first
\* probe was answered has spawned nothing and resolves to Running.
C3_Original ==
    /\ (/\ lastOp.op = "start" /\ lastOp.pre \in {"Stopped", "Failed"}
        /\ ping_daemon_sync(endpoint))
          => state = Starting
    /\ \A t \in DOMAIN startups :
        startups[t].pre = "alive" =>
            /\ startups[t].child = "none"
            /\ (lastOp.op = "startup_resolved" /\ lastOp.id = t /\ alive)
                  => state = Running

\* C3 as amended: a startup sequence (start() found a binary) that has created
\* the data directory and whose first probe was answered removes no socket
\* file, spawns no child and returns ALREADY_RUNNING; once that result is
\* applied to the supervisor (not dropped meanwhile) the state is Running.
C3_AlreadyRunning ==
    \A t \in DOMAIN startups :
        startups[t].pre = "alive" =>
            /\ startups[t].child = "none"
            /\ ~startups[t].sock
            /\ startups[t].pc \in {"resolved", "done"}
            /\ startups[t].pc = "resolved" => startups[t].result = Err(ALREADY_RUNNING)
            /\ (lastOp.op = "startup_resolved" /\ lastOp.id = t /\ alive)
                  => state = Running

C3_Witness ==
    /\ lastOp.op = "startup_resolved" /\ alive
    /\ startups[lastOp.id].pre = "alive"
    /\ lastOp.pre = "Starting" /\ state = Running /\ child_handle = 0

C6_BinaryNotFound ==
    (/\ lastOp.op = "start" /\ lastOp.pre \in {"Stopped", "Failed"}
     /\ daemon_path = "None")
      => /\ state = Failed(BinaryNotFound)
         /\ startups = <<>>
         /\ child_handle = 0

C6_Witness ==
    /\ lastOp.op = "start" /\ lastOp.pre = "Failed"
    /\ daemon_path = "None" /\ ping_daemon_sync(endpoint)

\* C7: connect() called while the connection state is Connecting or Connected
\* changes neither the state nor the stored channel and schedules no dial.
C7_ConnectIsIdempotent ==
    [][(connect /\ connState.tag \in {"Connecting", "Connected"})
          => UNCHANGED <<connState, channel, dials>>]_vars

C7_Witness ==
    /\ lastOp.op = "connect" /\ lastOp.pre = "Connected"
    /\ connState = Connected /\ channel # 0

\* C8: at most one connect task is in flight (scheduled, its result not yet
\* applied) at any time.
C8_OneDialInFlight == Cardinality(InFlight(dials)) <= 1

\* C9: the connection state becomes Connected or Error only from Connecting,
\* and only in the step that applies a connect task's result.
C9_ResolvedOnlyFromConnecting ==
    [][(connState' # connState /\ connState'.tag \in {"Connected", "Error"})
          => /\ connState.tag = "Connecting"
             /\ \E d \in DOMAIN dials :
                    dials[d].pc = "resolved" /\ dials'[d].pc = "done"]_vars

\* C10: disconnect(), in whatever state it is called, leaves the channel
\* empty and the state Disconnected, and schedules nothing.
C10_DisconnectIsSynchronous ==
    [][disconnect
          => /\ channel' = 0
             /\ connState' = Disconnected
             /\ UNCHANGED <<dials, startups>>]_vars

C10_Witness ==
    /\ lastOp.op = "disconnect" /\ lastOp.pre = "Connected"
    /\ connState = Disconnected /\ channel = 0

\* C11: every successful mutating operation is followed by exactly one call of
\* the listing of its entity kind, whatever the chained operation returns: the
\* continuation that ends the chain of a successful mutation (the Ok arm of any
\* mutating operation but create_container with start, or either arm of the
\* start_container that a successful create_container chained) calls
\* list_containers, respectively list_networks, exactly once.
C11_MutationTriggersRefresh ==
    (handled.op = "op_resolved" /\ handled.pre = "alive"
        /\ handled.id.kind \in MutatingOps) =>
        LET k == handled.id.kind
            list == IF k \in NetworkOps THEN "list_networks" ELSE "list_containers"
            ends_chain ==
                \/ handled.id.result = "Ok" /\ ~(k = "create_container" /\ handled.id.start)
                \/ k = "start_container" /\ handled.id.by = "chained"
        IN  ends_chain =>
                /\ Len(handled.issued) = 1
                /\ handled.issued[1].kind = list

\* C12: every typed operation whose background call fails emits an
\* OperationFailed event and is not retried: the continuation of a failed call
\* emits exactly that event and calls no operation.
C12_FailureEmitsOperationFailed ==
    (handled.op = "op_resolved" /\ handled.pre = "alive"
        /\ handled.id.result = "Err") =>
        /\ Len(handled.emitted) = 1
        /\ handled.emitted[1].tag = "OperationFailed"
        /\ handled.issued = <<>>

\* C13: with no channel, a mutating operation emits OperationFailed("Not
\* connected to daemon") and dispatches no call, and a listing emits nothing
\* and dispatches no call.
C13_NotConnectedGuard ==
    (handled.op \in TypedOps /\ handled.pre = "None") =>
        /\ handled.issued = <<Issued(handled.op, FALSE)>>
        /\ handled.emitted =
            IF handled.op \in MutatingOps THEN <<OperationFailed(NotConnected)>> ELSE <<>>

\* C14: a typed operation that fails (its call returns an error, or it finds
\* no channel) leaves the foreground as it was: the connection state, the
\* channel, the supervisor and the views' loaded lists are unchanged, no
\* operation is called, and nothing is put in flight.
C14_FailureLeavesStateUnchanged ==
    [][(\/ handled'.op = "op_resolved" /\ handled'.id.result = "Err"
        \/ handled'.op \in TypedOps /\ handled'.pre = "None") =>
            /\ UNCHANGED <<connState, channel, views, mgrVars>>
            /\ \A i \in DOMAIN handled'.issued : ~handled'.issued[i].dispatched
            /\ handled'.op = "op_resolved" => handled'.issued = <<>>
            /\ \A o \in BagToSet(ops') : CopiesIn(o, ops') <= CopiesIn(o, ops)]_vars

\* a mutating operation has failed while the containers view shows a loaded
\* list
C14_Witness ==
    /\ handled.op = "op_resolved" /\ handled.pre = "alive"
    /\ handled.id.result = "Err" /\ handled.id.kind \in MutatingOps
    /\ views.containers.list # <<>> /\ ~views.containers.is_loading
    /\ connState = Connected

\* C15: an invocation of a typed operation emits at most one event of its own,
\* counting what it emits at its guard and what its continuation emits, whatever
\* the call returns and whatever runs in between.
C15_AtMostOneEvent ==
    /\ handled.op \in TypedOps \cup {"op_resolved"} =>
        /\ handled.id.events <= 1
        /\ Len(handled.emitted) <= 1
    /\ \A o \in BagToSet(ops) : o.events = 0

\* a continuation has emitted the one event of its invocation and then
\* dispatched the chained operation, while other operations are in flight
C15_Witness ==
    /\ handled.op = "op_resolved" /\ handled.id.events = 1
    /\ handled.issued # <<>> /\ handled.issued[1].dispatched
    /\ BagCardinality(ops) >= 2

\* C16: whatever subscribe() calls and renders a LogViewer sees, the service
\* gets at most one subscribe_logs invocation from it, hence at most one
\* forwarding loop, and a subscribe() or render of a viewer already subscribed
\* changes nothing.
C16_SubscribeOnce ==
    /\ [](Len(subs) <= 1)
    /\ [][(lastOp'.op \in {"subscribe", "render"} /\ viewer.subscribed
            /\ calls' = calls + 1) =>
                UNCHANGED <<viewer, subs>>]_vars

\* a subscribe() finds the viewer subscribed while its one forwarding loop runs
C16_Witness ==
    /\ lastOp.op = "subscribe" /\ lastOp.pre = "subscribed"
    /\ Len(subs) = 1 /\ subs[1].fwd \in {"recv", "sleeping"}

\* C17: when the log stream ends or yields an error, the producer drops the
\* sending end of the queue and the forwarding loop eventually sees the queue
\* disconnected and exits; after its exit the subscription does nothing more
\* (no LogsReceived event); and the end of the stream itself raises no event
\* and leaves the viewer as it is.
C17_StreamEndStopsForwarding ==
    /\ \A s \in 1..MaxCalls :
        (s \in DOMAIN subs /\ subs[s].stream \in {"ended", "error"})
            ~> (/\ s \in DOMAIN subs
                /\ subs[s].producer = "finished" /\ ~subs[s].tx
                /\ subs[s].fwd = "done" /\ ~subs[s].rx)
    /\ [][\A s \in DOMAIN subs :
            /\ subs[s].fwd = "done" => subs'[s] = subs[s]
            /\ (\/ subs'[s].stream # subs[s].stream
                \/ subs'[s].producer # subs[s].producer
                \/ subs[s].fwd # "done" /\ subs'[s].fwd = "done") =>
                    /\ subs'[s].events = subs[s].events
                    /\ viewer' = viewer]_vars

\* a stream that delivered entries to the viewer has ended and the forwarding
\* loop has exited
C17_Witness ==
    /\ Len(subs) = 1 /\ subs[1].stream \in {"ended", "error"}
    /\ subs[1].producer = "finished" /\ subs[1].fwd = "done"
    /\ subs[1].events >= 1 /\ subs[1].queue = <<>>
    /\ alive /\ ~viewer.released /\ viewer.lines # <<>>

\* C18: when the entity that started a background operation has been released
\* while the operation was in flight, the continuation that takes the
\* operation's result (of a startup sequence, of a connect task, of a typed
\* operation) changes no foreground state, calls nothing and emits no event.
C18_ReleasedEntityIgnoresResult ==
    [][(/\ ~alive
        /\ \/ \E t \in DOMAIN startups :
                startups[t].pc = "resolved" /\ startups'[t].pc = "done"
           \/ \E d \in DOMAIN dials :
                dials[d].pc = "resolved" /\ dials'[d].pc = "done"
           \/ handled'.op = "op_resolved") =>
            /\ UNCHANGED <<state, child_handle, connState, channel, views, viewer>>
            /\ emitted' = <<>>
            /\ Len(dials') = Len(dials) /\ Len(startups') = Len(startups)
            /\ \A o \in BagToSet(ops') : CopiesIn(o, ops') <= CopiesIn(o, ops)
            /\ handled'.op = "op_resolved" =>
                    handled'.emitted = <<>> /\ handled'.issued = <<>>]_vars

\* the window was closed while a connect task was in flight, and the task's
\* continuation has run since: the service is still Connecting
C18_Witness ==
    /\ ~alive
    /\ lastOp.op = "connect_resolved"
    /\ connState = Connecting /\ channel = 0
    /\ state = Running

\* C19: once the owner of a log subscription has discarded it (the LogViewer is
\* released, alone or with the service when the window closes), the forwarding
\* loop and the producer eventually terminate, even if the stream never ends.
C19_DiscardStopsForwarding ==
    \A s \in 1..MaxCalls :
        (s \in DOMAIN subs /\ viewer.released)
            ~> (/\ s \in DOMAIN subs
                /\ subs[s].fwd = "done"
                /\ subs[s].producer \in {"none", "finished"})

\* C20: for every task returned by Tokio::spawn: once it has been dropped
\* unresolved, abort() has been called on the tokio task and a future that was
\* still running is no longer left to run freely; a task that resolved did so
\* exactly once, with what the join handle returned (the future's value when
\* the future completed); and the future is aborted or cancelled only through
\* the drop of its task.
C20_DropAbortsElseResolvesOnce ==
    \A i \in DOMAIN tasks :
        LET t == tasks[i] IN
        /\ t.task = "dropped" => t.abort # "none" /\ t.fut # "running"
        /\ t.task = "resolved" =>
                /\ t.resolutions = 1
                /\ t.result = join(t)
                /\ t.fut = "completed" => t.result = Ok /\ t.got = t.value
        /\ t.task = "pending" => t.resolutions = 0 /\ t.abort = "none"
        /\ t.task # "resolved" => t.resolutions = 0
        /\ (t.abort = "effective" \/ t.fut \in {"aborting", "cancelled"}) =>
                t.task = "dropped"

\* one task was dropped while its future ran and the future was cancelled;
\* another was kept and resolved with its future's value
C20_Witness ==
    \E i, j \in DOMAIN tasks :
        /\ tasks[i].task = "dropped" /\ tasks[i].abort = "effective"
        /\ tasks[i].fut = "cancelled"
        /\ tasks[j].task = "resolved" /\ tasks[j].fut = "completed"
        /\ tasks[j].got = 2 /\ tasks[j].abort = "late"

\* C21 as claimed: whenever the work given to Tokio::spawn has panicked or has
\* been aborted, the returned task is one that resolves to Err(JoinError): it
\* is pending or has resolved to that value.
C21_Original ==
    \A i \in DOMAIN tasks :
        (tasks[i].fut = "panicked" \/ tasks[i].abort = "effective") =>
            \/ tasks[i].task = "pending"
            \/ tasks[i].task = "resolved" /\ tasks[i].result.kind = "Err"

\* C21 as amended: when the work panics, the returned task, unless its holder
\* drops it, resolves to Err(JoinError), the task of fetch_icon that awaits it
\* gets that value and, its service still there, caches IconState::Error with
\* the error's text; the foreground goes on running. Work that was aborted
\* belongs to a task that was dropped, which nothing awaits.
C21_PanicResolvesToJoinError ==
    /\ [](\A i \in DOMAIN tasks :
            LET t == tasks[i] IN
            /\ (t.fut = "panicked" /\ t.task = "resolved") =>
                    /\ t.result = JoinError("panic")
                    /\ (t.awaited /\ alive) =>
                            t.icon = IconState("Error", JoinError("panic").err)
            /\ ~t.awaited => t.icon = Loading
            /\ t.abort = "effective" => t.task = "dropped" /\ ~t.awaited)
    /\ \A i \in 1..MaxTasks :
            (i \in DOMAIN tasks /\ tasks[i].fut = "panicked")
                ~> (i \in DOMAIN tasks
                    /\ (tasks[i].task = "dropped" \/ tasks[i].awaited))

\* the work of a task panicked, the task resolved and fetch_icon has cached the
\* error, while another task is still pending
C21_Witness ==
    \E i, j \in DOMAIN tasks :
        /\ tasks[i].fut = "panicked" /\ tasks[i].task = "resolved"
        /\ tasks[i].awaited /\ tasks[i].icon.tag = "Error"
        /\ tasks[j].task = "pending"

\* C22: once the supervisor state is Failed, only a start() or stop() call
\* changes it: no step of a startup sequence and no continuation does.
C22_FailedLeftOnlyByCall ==
    [][(state.tag = "Failed" /\ state' # state) =>
            /\ calls' = calls + 1
            /\ lastOp'.op \in {"start", "stop"}]_vars

\* C23: stop(), in whatever state it is called, leaves the state Stopped, emits
\* StateChanged(Stopped) exactly when the state was not Stopped before, and
\* touches neither the retained child handle, nor the socket, nor the binary
\* path, nor any startup sequence or the process it spawned.
C23_StopOnlySetsState ==
    [][(lastOp'.op = "stop" /\ calls' = calls + 1) =>
            /\ state' = Stopped
            /\ emitted' = IF state # Stopped THEN <<Stopped>> ELSE <<>>
            /\ UNCHANGED <<child_handle, startups, endpoint, daemon_path>>]_vars

\* stop() was called in Running with the handle of a spawned daemon held, the
\* process still running
C23_Witness ==
    /\ lastOp.op = "stop" /\ lastOp.pre = "Running"
    /\ state = Stopped /\ emitted = <<Stopped>>
    /\ child_handle # 0 /\ startups[child_handle].child = "running"

\* C24 as claimed: after a startup sequence has resolved through the
\* already-running path (its first probe was answered), the supervisor, if it
\* still exists, is Running and holds no process handle.
C24_Original ==
    (/\ alive /\ lastOp.op = "startup_resolved"
     /\ startups[lastOp.id].pre = "alive") =>
        state = Running /\ child_handle = 0

\* C24 as amended: the continuation of a startup sequence that resolved through
\* the already-running path leaves the supervisor Running and the process
\* handle as it was: empty, unless an earlier sequence of this supervisor
\* succeeded by spawning, whose handle is kept.
C24_AlreadyRunningKeepsHandle ==
    [][\A t \in DOMAIN startups :
        (/\ alive
         /\ startups[t].pc = "resolved" /\ startups'[t].pc = "done"
         /\ startups[t].result = Err(ALREADY_RUNNING)) =>
            /\ state' = Running
            /\ UNCHANGED child_handle
            /\ child_handle' # t
            /\ child_handle' # 0 =>
                    /\ startups[child_handle'].pc = "done"
                    /\ startups[child_handle'].child # "none"]_vars

\* a sequence resolved through the already-running path while the supervisor
\* holds the handle of the daemon an earlier sequence spawned
C24_Witness ==
    /\ alive /\ lastOp.op = "startup_resolved"
    /\ startups[lastOp.id].pre = "alive"
    /\ state = Running
    /\ child_handle # 0 /\ child_handle # lastOp.id

\* C25: the queue between the producer and the forwarding loop is bounded: for
\* a stream of MaxEntries entries some capacity below MaxEntries holds, so the
\* entries sent and not yet forwarded never number MaxEntries, however slowly
\* the loop drains.
C25_QueueBounded ==
    \A s \in DOMAIN subs : Len(subs[s].queue) < MaxEntries

\* C26: the Ok arm of a mutating operation emits the operation's own event
\* first and only then calls the refresh: when the event has been emitted the
\* refresh is one more operation in flight, its continuation (the only step
\* that emits ContainersLoaded or NetworksLoaded) still to run; and the
\* refresh of containers is list_containers with all = true.
C26_EventBeforeRefresh ==
    /\ [][(/\ handled'.op = "op_resolved" /\ handled'.pre = "alive"
           /\ handled'.id.result = "Ok" /\ handled'.id.kind \in MutatingOps
           /\ handled'.issued # <<>> /\ handled'.issued[1].kind \in ListOps) =>
            LET list == handled'.issued[1].kind
                refresh == NewOp(list, list = "list_containers", "chained")
            IN  /\ Len(handled'.emitted) = 1
                /\ handled'.emitted[1].tag \notin
                        {"ContainersLoaded", "NetworksLoaded", "OperationFailed"}
                /\ handled'.issued[1].dispatched =>
                        /\ CopiesIn(refresh, ops') = 1
                        /\ BagCardinality(ops') = BagCardinality(ops)
                /\ \A o \in BagToSet(ops') :
                        o.kind = "list_containers" => o.start]_vars
    /\ [](handled.op # "none" =>
            \A i \in DOMAIN handled.emitted :
                handled.emitted[i].tag \in {"ContainersLoaded", "NetworksLoaded"} =>
                    /\ handled.op = "op_resolved"
                    /\ handled.id.kind \in {"list_containers", "list_networks"})

\* stop_container has succeeded: ContainerStopped was emitted and the refresh
\* with all = true is in flight
C26_Witness ==
    /\ handled.op = "op_resolved" /\ handled.id.kind = "stop_container"
    /\ handled.emitted = <<Event("ContainerStopped", EntityId)>>
    /\ handled.issued = <<Issued("list_containers", TRUE)>>
    /\ NewOp("list_containers", TRUE, "chained") \in BagToSet(ops)

\* C27: every startup sequence takes its steps in the order data directory,
\* probe, socket removal, spawn, polling: the socket is removed only after a
\* negative probe, a spawn is attempted only after a negative probe and the
\* removal, polling only follows a spawn that succeeded; a sequence whose data
\* directory cannot be created has probed, removed and spawned nothing and,
\* the supervisor still there, resolves to Failed.
C27_StartupStepOrder ==
    /\ [](\A t \in DOMAIN startups :
            LET q == startups[t] IN
            /\ q.pc = "mkdir" => q.pre = "none" /\ ~q.sock /\ q.child = "none"
            /\ q.pc = "probe" => q.pre = "none" /\ ~q.sock /\ q.child = "none"
            /\ q.pc = "rmsock" => q.pre = "dead" /\ ~q.sock /\ q.child = "none"
            /\ q.pc = "spawn" => q.pre = "dead" /\ q.sock /\ q.child = "none"
            /\ q.pc = "poll" => q.pre = "dead" /\ q.sock /\ q.child = "running"
            /\ q.sock => q.pre = "dead"
            /\ q.child # "none" => q.pre = "dead" /\ q.sock
            /\ q.pre = "alive" => ~q.sock /\ q.child = "none")
    /\ [][\A t \in DOMAIN startups :
            /\ startups'[t].pc # startups[t].pc =>
                    <<startups[t].pc, startups'[t].pc>> \in
                        {<<"mkdir", "probe">>, <<"mkdir", "resolved">>,
                         <<"probe", "rmsock">>, <<"probe", "resolved">>,
                         <<"rmsock", "spawn">>,
                         <<"spawn", "poll">>, <<"spawn", "resolved">>,
                         <<"poll", "resolved">>, <<"resolved", "done">>}
            /\ (/\ startups[t].pc = "mkdir" /\ startups'[t].pc = "resolved") =>
                    \E e \in IoErrors :
                        startups'[t].result = Err(Format("Failed to create data dir: ", e))
            /\ (/\ alive /\ startups[t].pc = "resolved" /\ startups'[t].pc = "done"
                /\ startups[t].pre = "none") =>
                    /\ state'.tag = "Failed" /\ state'.msg = startups[t].result.err
                    /\ ~startups[t].sock /\ startups[t].child = "none"]_vars

\* one sequence is polling for the daemon it spawned after a negative probe and
\* the removal of the socket, and another has failed to create the data
\* directory and left the supervisor Failed
C27_Witness ==
    \E t, u \in DOMAIN startups :
        /\ startups[t].pc = "poll" /\ startups[t].pre = "dead"
        /\ startups[t].sock /\ startups[t].child = "running"
        /\ startups[u].pc = "done" /\ startups[u].pre = "none"
        /\ lastOp = Op("startup_resolved", "Starting", u)
        /\ state.tag = "Failed"

\* C28: every startup sequence terminates: the poll loop returns whatever the
\* endpoint and the child do (on the first answered probe, on the child's
\* exit, on a failed status check or on the timeout, after at most the
\* iterations the timeout allows), and a supervisor that is Starting
\* eventually is Running, Failed or Stopped.
C28_StartingIsLeft ==
    /\ [](\A r \in PollOutcomes :
            /\ r.done /\ r.result.kind \in {"Ok", "Err"}
            /\ r.i <= LastFastIter + 1)
    /\ state = Starting ~> state.tag \in {"Running", "Failed", "Stopped"}

\* the supervisor has left Starting for Failed on the timeout of the poll loop
C28_Witness ==
    /\ alive /\ lastOp.op = "startup_resolved" /\ lastOp.pre = "Starting"
    /\ state = Failed(StartupTimeout)

\* C29: the continuation of a startup sequence that succeeded by spawning
\* leaves the supervisor Running and holding the handle of the process that
\* sequence spawned; a handle once held is never cleared: child_handle changes
\* only in such a continuation, to the handle of its own process.
C29_HandleRetained ==
    [][/\ \A t \in DOMAIN startups :
            (/\ alive
             /\ startups[t].pc = "resolved" /\ startups'[t].pc = "done"
             /\ startups[t].result = Ok) =>
                /\ state' = Running
                /\ child_handle' = t
                /\ startups[t].child # "none"
       /\ child_handle # 0 => child_handle' # 0
       /\ child_handle' # child_handle =>
            /\ alive
            /\ child_handle' \in DOMAIN startups
            /\ startups[child_handle'].pc = "resolved"
            /\ startups[child_handle'].result = Ok]_vars

\* after a start that spawned the daemon and a stop(), a second start has
\* failed: the supervisor is Failed and still holds the first handle
C29_Witness ==
    /\ alive /\ lastOp.op = "startup_resolved" /\ state.tag = "Failed"
    /\ child_handle # 0 /\ child_handle # lastOp.id
    /\ startups[child_handle].child = "running"

\* C30: in the application connect() is called only in reaction to
\* StateChanged(Running) and once for each such event: a step that emits the
\* event leaves the service as one connect() call does, a connect task is
\* created only by such a step, one at a time, and so nothing is dialed before
\* a startup sequence has resolved and Running was reported.
C30_ConnectOnlyOnRunning ==
    /\ [][/\ (emitted' = <<Running>> /\ state' # state) =>
                IF connState.tag \in {"Connecting", "Connected"}
                THEN UNCHANGED svcVars
                ELSE /\ connState' = Connecting
                     /\ dials' = Append(dials, NewDial)
                     /\ UNCHANGED channel
          /\ Len(dials') # Len(dials) =>
                /\ emitted' = <<Running>> /\ state' = Running /\ state # Running
                /\ Len(dials') = Len(dials) + 1]_vars
    /\ [](dials # <<>> => \E t \in DOMAIN startups : startups[t].pc = "done")

\* the supervisor has reported Running a second time, after a disconnect(), and
\* the second connect task has been created
C30_Witness ==
    /\ emitted = <<Running>> /\ lastOp.op = "startup_resolved"
    /\ Len(dials) = 2 /\ dials[2].pc = "dialing"
    /\ connState = Connecting

\* C31: a probe answers alive exactly when the socket was opened, the request
\* was written, a non-empty response was read before the read timeout and the
\* response contains the marker "OK"; any other exchange is a negative answer,
\* after which the sequence goes on (to the removal of the socket file, or in
\* the loop to the check of the child): a probe never makes the sequence fail.
C31_ProbeIsTotalBoolean ==
    [][\A t \in DOMAIN startups :
        LET x == Exchange(endpoint)
            marked == /\ x.connect /\ x.write /\ x.n > 0
                      /\ Contains(x.response, <<"O", "K">>)
            y == Exchange(endpoint')
            markedAfter == /\ y.connect /\ y.write /\ y.n > 0
                           /\ Contains(y.response, <<"O", "K">>)
        IN  /\ (startups[t].pc = "probe" /\ startups'[t].pc # "probe") =>
                /\ marked => /\ startups'[t].pc = "resolved"
                             /\ startups'[t].result = Err(ALREADY_RUNNING)
                /\ ~marked => /\ startups'[t].pc = "rmsock"
                              /\ startups'[t].result = NoResult
            /\ (startups[t].pc = "poll" /\ startups'[t].pc # "poll") =>
                /\ startups'[t].result.kind = "Ok" <=> markedAfter
                /\ startups'[t].result.kind = "Err" =>
                    \/ startups'[t].result.err = StartupTimeout
                    \/ startups'[t].result.err[1] = "Daemon exited with: "
                    \/ StatusCheckFailed(startups'[t].result)]_vars

\* a first probe read the bare body "OK", without a status line, and the sequence
\* resolved as already running
C31_Witness ==
    /\ endpoint = "bare"
    /\ \E t \in DOMAIN startups :
        /\ startups[t].pc = "resolved" /\ startups[t].pre = "alive"
        /\ startups[t].result = Err(ALREADY_RUNNING)

\* C32: in every reachable state of the service a channel is stored if and
\* only if the connection state is Connected.
C32_ChannelIffConnected == (channel # 0) <=> (connState = Connected)

\* C33: while the service exists, the entries the producer has put on the queue
\* are delivered as LogsReceived events one each and in the stream's order: at
\* any time the events emitted carry the entries 1..events and the queue holds
\* the entries after them, in order; each event carries the oldest queued entry;
\* and every entry put on the queue is eventually delivered, those still queued
\* when the producer has closed its end included.
C33_EntriesDeliveredInOrder ==
    /\ [](\A s \in DOMAIN subs :
            alive => /\ subs[s].events + Len(subs[s].queue) = subs[s].produced
                     /\ \A k \in 1..Len(subs[s].queue) :
                            subs[s].queue[k] = subs[s].events + k)
    /\ [][\A s \in DOMAIN subs :
            subs'[s].events # subs[s].events =>
                /\ subs'[s].events = subs[s].events + 1
                /\ subs[s].queue # <<>>
                /\ Head(subs[s].queue) = subs'[s].events
                /\ subs'[s].queue = Tail(subs[s].queue)
                /\ ~viewer.released => viewer'.lines =
                        Append(viewer.lines, LogLine(<<"a">>, subs'[s].events))]_vars
    /\ \A s \in 1..MaxCalls, n \in 1..MaxEntries :
            (s \in DOMAIN subs /\ subs[s].produced >= n)
                ~> (~alive \/ (s \in DOMAIN subs /\ subs[s].events >= n))

\* the producer has closed its end, every entry of the stream has been delivered
\* and the forwarding loop has seen the queue disconnected
C33_Witness ==
    /\ alive
    /\ \E s \in DOMAIN subs :
        /\ subs[s].fwd = "done" /\ ~subs[s].tx
        /\ subs[s].produced = MaxEntries /\ subs[s].events = MaxEntries
        /\ ~viewer.released /\ Len(viewer.lines) = MaxEntries

\* C34: the supervisor emits StateChanged(s) exactly when its stored state
\* changes to s.  The state changes in no step without an event carrying the
\* new state; a handler of the supervisor (start, stop, the continuation of a
\* startup sequence) emits one event, carrying the new state, when it changes
\* the state and none when it leaves the state equal; so an event never carries
\* the state the supervisor was in before it, which is the state the previous
\* event carried, and the last event emitted carries the current state.
C34_EventIffStateChanges ==
    /\ [](emitted # <<>> => emitted = <<state>>)
    /\ [][/\ state' # state => emitted' = <<state'>>
          /\ (\/ calls' = calls + 1 /\ lastOp'.op \in {"start", "stop"}
              \/ \E t \in DOMAIN startups :
                    startups[t].pc = "resolved" /\ startups'[t].pc = "done")
                => /\ emitted' = IF state' # state THEN <<state'>> ELSE <<>>
                   /\ \A k \in 1..Len(emitted') : emitted'[k] # state]_vars

\* a continuation set Running on a supervisor that was already Running (two
\* startup sequences overlapped) and emitted nothing
C34_Witness ==
    /\ lastOp.op = "startup_resolved" /\ lastOp.pre = "Running"
    /\ state = Running /\ emitted = <<>>

\* C35: once a container mutation has succeeded and no list_containers call is
\* in flight any more, the list the ContainersView holds is the response of the
\* most recently issued call: the last response applied is never that of a
\* call issued before the refresh, applied after the response of the refresh
\* (or of a call issued after it).
C35_RefreshNotOverwritten ==
    [][(/\ handled'.op = "op_resolved" /\ handled'.pre = "alive"
        /\ handled'.id.kind = "list_containers" /\ handled'.id.result = "Ok"
        /\ \A o \in BagToSet(ops') : o.kind # "list_containers")
            => handled'.id.refresh # "applied"]_vars

\* C36: at most one startup sequence is in flight at a time, so no two
\* sequences that overlap have each spawned a daemon process.
C36_OneStartupInFlight ==
    /\ Cardinality(InFlight(startups)) <= 1
    /\ \A t, u \in InFlight(startups) :
            (startups[t].child # "none" /\ startups[u].child # "none") => t = u

\* C37: whenever the LogViewer's subscribed flag is true, a log-stream request
\* for its container has been dispatched to the daemon.
C37_SubscribedHasStream ==
    viewer.subscribed => \E s \in DOMAIN subs : subs[s].dispatched

\* C38: after the LogViewer has handled a LogsReceived event its buffer holds
\* at most max_lines lines, none of them empty; an event of another container
\* leaves the buffer as it was; an event of the viewer's container appends the
\* non-empty lines of the entry in their order, and lines are dropped only from
\* the front and only as many as needed: what stays are the most recent lines
\* in the order they arrived.
C38_BufferTrimmed ==
    /\ [](/\ Len(viewer.lines) <= MAX_LINES
          /\ \A i \in DOMAIN viewer.lines : viewer.lines[i].content # <<>>)
    /\ [][(handled'.op = "logs_received" /\ calls' = calls + 1) =>
            LET entry == handled'.entry
                all == Lines(entry.data)
                kept == {i \in 1..Len(all) : all[i] # <<>>}
                added == IF handled'.container_id = EntityId THEN Cardinality(kept) ELSE 0
                before == Len(viewer.lines)
                after == Len(viewer'.lines)
                dropped == before + added - after
            IN  /\ dropped >= 0 /\ dropped <= before
                /\ dropped > 0 => after = MAX_LINES
                /\ SubSeq(viewer'.lines, 1, before - dropped)
                        = SubSeq(viewer.lines, dropped + 1, before)
                /\ \A j \in 1..added :
                        LET line == viewer'.lines[before - dropped + j] IN
                        /\ line.timestamp = entry.timestamp
                        /\ \E i \in kept :
                            /\ line.content = all[i]
                            /\ Cardinality({h \in kept : h <= i}) = j]_vars

\* an entry of two lines and an empty one between them arrived at a viewer whose
\* buffer was full: the buffer is full again and ends with the two lines
C38_Witness ==
    /\ handled.op = "logs_received" /\ handled.container_id = EntityId
    /\ handled.entry.data = <<"a", "\n", "\n", "b", "\n">>
    /\ Len(viewer.lines) = MAX_LINES
    /\ viewer.lines[MAX_LINES] = LogLine(<<"b">>, handled.entry.timestamp)
    /\ viewer.lines[MAX_LINES - 1] = LogLine(<<"a">>, handled.entry.timestamp)
    /\ viewer.lines[1].timestamp = 0

====
